---- MODULE Spec2Model ----
(***************************************************************************)
(* The multiplayer client of src/client.js (the program that starts at     *)
(* line 306): the session bootstrap (init), the socket callbacks of        *)
(* connectAndJoin, the inbound-message handler and the render tick.        *)
(*                                                                         *)
(* JavaScript runs one task at a time.  Every action below is one task     *)
(* together with the microtasks it triggers: a socket callback up to its   *)
(* first await on a pending image load, the continuation of a handler      *)
(* after such a load, an animation frame.  A resolved promise continues    *)
(* its awaiter in the same task, so resolving connectAndJoin runs the      *)
(* rest of init up to init's own next image load.                          *)
(*                                                                         *)
(* Spec is a session of a page opened without ?avatar= under every kind of *)
(* inbound message, with no key pressed; LiveSpec is Spec with the         *)
(* fairness of the browser's own steps; BootSpec is the start of a session *)
(* with or without ?avatar=, under the messages that decide the join;      *)
(* PlaySpec is a session with the keyboard, the clock and the messages     *)
(* that concern the local player; MoveSpec, CameraSpec and DrawSpec apply  *)
(* integrateMovement, updateCamera and drawPlayerSprite to inputs drawn    *)
(* from bounded sets.                                                      *)
(***************************************************************************)
EXTENDS Integers, Sequences, FiniteSets, TLC

VARIABLES
    world,        \* world.width, world.height (lines 349-353)
    selfPlayer,   \* the local entity (lines 355-369)
    players,      \* Map of the other players by id (line 377)
    avatarAtlas,  \* names registered in the avatar atlas (line 376)
    labelCanvas,  \* text of the local name label, "null" before the first one
    camera,       \* camera.x, camera.y (line 371)
    socket,       \* "null", or the readyState of the WebSocket
    sent,         \* what socket.send was given, in order
    settled,      \* the settled flag of connectAndJoin (line 547)
    joined,       \* the promise of connectAndJoin: "pending", "true", "false"
    initpc,       \* where init stands
    avatarParam,  \* whether the page was opened with ?avatar=
    tasks,        \* onmessage invocations suspended in loadAvatarAtlas
    delivered,    \* number of message events fired so far
    lastDone,     \* the message whose handler ended last, and how it ended
    seq,          \* the state had every handler run to completion on delivery
    pressedKeys,  \* the arrow keys held (line 444)
    elapsed,      \* performance.now() - lastTs, in units of 50 ms (line 697)
    keyEvents,    \* number of keyboard and blur events fired so far
    view,         \* the viewport in device pixels (lines 684-685)
    frames,       \* length of the frame sequences of an atlas entry, by facing
    drawn         \* what the last tick drew for the local entity's sprite

vars == <<world, selfPlayer, players, avatarAtlas, labelCanvas, camera, socket,
          sent, settled, joined, initpc, avatarParam, tasks, delivered,
          lastDone, seq, pressedKeys, elapsed, keyEvents, view, frames, drawn>>

\* what a session without keyboard, clock and resize leaves alone
inputVars == <<pressedKeys, elapsed, keyEvents, view, frames, drawn>>

---------------------------------------------------------------------------
(* Bounds of the model *)

\* message events per session
MaxMsgs == 2
\* coordinates a message carries are 0..MaxCoord
MaxCoord == 1
\* handler invocations suspended at the same time
MaxPending == 1
\* entries of the players object of one message
MaxEntries == 2
\* size of the map image, when it loads
WorldW == 5
WorldH == 7
\* size of the viewport in device pixels
ViewW == 2
ViewH == 2
\* keyboard and blur events per session
MaxKeyEvents == 2
\* the clock is read up to MaxElapsed units of 50 ms after the last tick
MaxElapsed == 2
\* moveSpeed in world pixels per unit of 50 ms (line 698, ?speed=)
MoveSpeed == 2
\* frames of a facing in an atlas entry, and animationFrame values
\* -1..MaxFrames + 1
MaxFrames == 4

\* line 702: dt is at most 0.05 s, one unit
DtCap == 1

Ids == {"A", "B", "Z"}
\* the identifier the server gives this client
SelfId == "Z"
AvatarNames == {"a1", "a2"}
Coords == 0..MaxCoord

Max(a, b) == IF a >= b THEN a ELSE b
Min(a, b) == IF a <= b THEN a ELSE b

Has(r, f) == f \in DOMAIN r

\* r with field f set to v (the field is added when r lacks it)
Set(r, f, v) == [g \in DOMAIN r \cup {f} |-> IF g = f THEN v ELSE r[g]]

\* a JSON null among the values of a players object
NullP == [null |-> TRUE]
IsFalsy(p) == Has(p, "null")

---------------------------------------------------------------------------
(* The program's state as one record, so that a handler is an operator *)

Cur == [world |-> world, selfPlayer |-> selfPlayer, players |-> players,
        avatarAtlas |-> avatarAtlas, labelCanvas |-> labelCanvas,
        settled |-> settled, joined |-> joined, initpc |-> initpc]

Install(s) ==
    /\ world' = s.world
    /\ selfPlayer' = s.selfPlayer
    /\ players' = s.players
    /\ avatarAtlas' = s.avatarAtlas
    /\ labelCanvas' = s.labelCanvas
    /\ settled' = s.settled
    /\ joined' = s.joined
    /\ initpc' = s.initpc

NoPlayers == [id \in {} |-> NullP]

selfPlayer0 ==
    [id |-> "null", name |-> "Lynn", x |-> 0, y |-> 0, avatarName |-> "null",
     facing |-> "south", animationFrame |-> 0, isMoving |-> FALSE,
     avatarImage |-> "null", avatarWidth |-> 64, avatarHeight |-> 64]

---------------------------------------------------------------------------
(* Helpers of the source *)

clamp(value, min, max) ==
    IF min > max THEN min ELSE Max(min, Min(max, value))

\* The label image is represented by the text drawn into it.
LabelText(name) == IF name = "" THEN "Player" ELSE name

prepareLabelForPlayer(player) ==
    Set(player, "labelCanvas", LabelText(player.name))

prepareNameLabel(s) == [s EXCEPT !.labelCanvas = s.selfPlayer.name]

ensureOtherPlayer(ps, id) ==
    IF id \in DOMAIN ps THEN ps
    ELSE [k \in DOMAIN ps \cup {id} |->
            IF k = id
            THEN [id |-> id, name |-> "Player", x |-> 0, y |-> 0,
                  avatarImage |-> "null", avatarWidth |-> 48,
                  avatarHeight |-> 48, labelCanvas |-> "null"]
            ELSE ps[k]]

---------------------------------------------------------------------------
(* init, after connectAndJoin has given its value *)

\* lines 854-869: the label, the listeners and the first call of loop
InitFinish(s) == [prepareNameLabel(s) EXCEPT !.initpc = "loop"]

\* lines 805-852: the offline fallback and the avatar of the local entity
InitAfterJoin(s, v) ==
    LET s1 == IF ~v /\ s.world.width > 0 /\ s.world.height > 0
              THEN [s EXCEPT !.selfPlayer.x = s.world.width \div 2,
                             !.selfPlayer.y = s.world.height \div 2]
              ELSE s
    IN  IF s1.selfPlayer.avatarImage = "null"
        THEN IF avatarParam
             THEN [s1 EXCEPT !.initpc = "loadAvatar"]
             ELSE InitFinish([s1 EXCEPT !.selfPlayer.avatarImage = "placeholder",
                                        !.selfPlayer.avatarWidth = 64,
                                        !.selfPlayer.avatarHeight = 64])
        ELSE InitFinish(s1)

\* resolve(v) of the promise of connectAndJoin; only the first call counts,
\* and init, which awaits the promise, continues in the same task
resolve(s, v) ==
    IF s.joined = "pending"
    THEN InitAfterJoin([s EXCEPT !.joined = IF v THEN "true" ELSE "false"], v)
    ELSE s

\* if (!settled) { settled = true; resolve(v); }
Settle(s, v) ==
    IF ~s.settled THEN resolve([s EXCEPT !.settled = TRUE], v) ELSE s

---------------------------------------------------------------------------
(* The inbound-message handler, socket.onmessage *)

\* What a handler leaves behind: the state, and whether it ended in its
\* catch clause (line 627).
Ok(s) == [st |-> s, threw |-> FALSE]
Threw(s) == [st |-> s, threw |-> TRUE]

\* A slip of lines 577-578: the spawn added to the position, not stored
SetSelfFromRosterAdded(sp, p) ==
    [sp EXCEPT !.x = @ + (IF Has(p, "x") THEN p.x ELSE 0),
               !.y = @ + (IF Has(p, "y") THEN p.y ELSE 0),
               !.name = IF Has(p, "username") THEN p.username ELSE sp.name,
               !.avatarName = IF Has(p, "avatar") THEN p.avatar ELSE "null",
               !.facing = IF Has(p, "facing") THEN p.facing ELSE "south",
               !.isMoving = IF Has(p, "isMoving") THEN p.isMoving ELSE FALSE,
               !.animationFrame =
                   IF Has(p, "animationFrame") THEN p.animationFrame ELSE 0]

\* lines 577-583: the entry of the local player in the roster of a join ack
SetSelfFromRoster(sp, p) ==
    [sp EXCEPT !.x = IF Has(p, "x") THEN p.x ELSE 0,
               !.y = IF Has(p, "y") THEN p.y ELSE 0,
               !.name = IF Has(p, "username") THEN p.username ELSE sp.name,
               !.avatarName = IF Has(p, "avatar") THEN p.avatar ELSE "null",
               !.facing = IF Has(p, "facing") THEN p.facing ELSE "south",
               !.isMoving = IF Has(p, "isMoving") THEN p.isMoving ELSE FALSE,
               !.animationFrame =
                   IF Has(p, "animationFrame") THEN p.animationFrame ELSE 0]

\* lines 574-587.  upsertPlayerFromRoster is defined nowhere in the program
\* (the function at line 431 is named upsertOtherPlayerFromServer), so
\* evaluating the call at line 585 throws a ReferenceError, which leaves
\* the loop and the rest of the handler for the catch clause.
RECURSIVE JoinLoop(_, _, _)
JoinLoop(s, entries, i) ==
    IF i > Len(entries) THEN Ok(s)
    ELSE LET pid == entries[i].pid
             p == entries[i].p
         IN  IF IsFalsy(p) THEN JoinLoop(s, entries, i + 1)
             ELSE IF pid = s.selfPlayer.id
             THEN JoinLoop([s EXCEPT !.selfPlayer = SetSelfFromRoster(@, p)],
                           entries, i + 1)
             ELSE Threw(s)

\* lines 570-590: a join ack after its atlas is loaded
JoinGameBody(s, m) ==
    LET s1 == [s EXCEPT !.selfPlayer.id =
                  IF Has(m, "playerId") THEN m.playerId ELSE "undefined"]
        r == IF Has(m, "players") THEN JoinLoop(s1, m.players, 1) ELSE Ok(s1)
    IN  IF r.threw THEN r
        ELSE Ok(Settle(prepareNameLabel(r.st), TRUE))

\* lines 595-597: the call at line 596 throws as the one at line 585 does
PlayerJoinedBody(s, m) ==
    IF Has(m, "player") /\ ~IsFalsy(m.player) THEN Threw(s) ELSE Ok(s)

\* lines 603-607
MovedSelf(sp, p) ==
    LET a == IF Has(p, "x") THEN [sp EXCEPT !.x = p.x] ELSE sp
        b == IF Has(p, "y") THEN [a EXCEPT !.y = p.y] ELSE a
        c == IF Has(p, "animationFrame")
             THEN [b EXCEPT !.animationFrame = p.animationFrame] ELSE b
        d == IF Has(p, "facing") THEN [c EXCEPT !.facing = p.facing] ELSE c
    IN  IF Has(p, "isMoving") THEN [d EXCEPT !.isMoving = p.isMoving] ELSE d

\* A slip of lines 610-611: the coordinates taken as in lines 577-578,
\* with 0 for a coordinate the entry does not give
MovedOtherDefaulted(op, p) ==
    LET a == Set(op, "x", IF Has(p, "x") THEN p.x ELSE 0)
        b == Set(a, "y", IF Has(p, "y") THEN p.y ELSE 0)
        c == IF Has(p, "animationFrame")
             THEN Set(b, "animationFrame", p.animationFrame) ELSE b
        d == IF Has(p, "facing") THEN Set(c, "facing", p.facing) ELSE c
        e == IF Has(p, "isMoving") THEN Set(d, "isMoving", p.isMoving) ELSE d
    IN  IF Has(p, "username") /\ p.username # e.name
        THEN prepareLabelForPlayer(Set(e, "name", p.username))
        ELSE e

\* lines 610-618 without the test of line 615: the label made anew for
\* every entry
MovedOtherRelabelled(op, p) ==
    LET a == IF Has(p, "x") THEN Set(op, "x", p.x) ELSE op
        b == IF Has(p, "y") THEN Set(a, "y", p.y) ELSE a
        c == IF Has(p, "animationFrame")
             THEN Set(b, "animationFrame", p.animationFrame) ELSE b
        d == IF Has(p, "facing") THEN Set(c, "facing", p.facing) ELSE c
        e == IF Has(p, "isMoving") THEN Set(d, "isMoving", p.isMoving) ELSE d
    IN  prepareLabelForPlayer(
            IF Has(p, "username") THEN Set(e, "name", p.username) ELSE e)

\* lines 610-618, on the entity that ensureOtherPlayer returned
MovedOther(op, p) ==
    LET a == IF Has(p, "x") THEN Set(op, "x", p.x) ELSE op
        b == IF Has(p, "y") THEN Set(a, "y", p.y) ELSE a
        c == IF Has(p, "animationFrame")
             THEN Set(b, "animationFrame", p.animationFrame) ELSE b
        d == IF Has(p, "facing") THEN Set(c, "facing", p.facing) ELSE c
        e == IF Has(p, "isMoving") THEN Set(d, "isMoving", p.isMoving) ELSE d
    IN  IF Has(p, "username") /\ p.username # e.name
        THEN prepareLabelForPlayer(Set(e, "name", p.username))
        ELSE e

\* A slip of line 603: every entry taken for the local player's
MovedEntryAllSelf(s, pid, p) ==
    IF IsFalsy(p) THEN s
    ELSE [s EXCEPT !.selfPlayer = MovedSelf(@, p)]

\* lines 601-619: one entry of a players_moved message
MovedEntry(s, pid, p) ==
    IF IsFalsy(p) THEN s
    ELSE IF pid = s.selfPlayer.id
    THEN [s EXCEPT !.selfPlayer = MovedSelf(@, p)]
    ELSE LET ps == ensureOtherPlayer(s.players, pid)
         IN  [s EXCEPT !.players = [ps EXCEPT ![pid] = MovedOther(@, p)]]

\* lines 599-621
RECURSIVE MovedLoop(_, _, _)
MovedLoop(s, entries, i) ==
    IF i > Len(entries) THEN s
    ELSE MovedLoop(MovedEntry(s, entries[i].pid, entries[i].p), entries, i + 1)

PlayersMoved(s, m) ==
    IF Has(m, "players") THEN MovedLoop(s, m.players, 1) ELSE s

\* A slip of line 623: the roster cleared
PlayerLeftCleared(s, m) ==
    IF Has(m, "playerId") THEN [s EXCEPT !.players = NoPlayers] ELSE s

\* line 623
PlayerLeft(s, m) ==
    IF Has(m, "playerId")
    THEN [s EXCEPT !.players = [k \in DOMAIN @ \ {m.playerId} |-> @[k]]]
    ELSE s

\* The names whose frames line 568 or line 593 makes the handler wait for,
\* in the order of Object.entries; empty when the handler does not wait.
AtlasOf(m) ==
    IF ~Has(m, "action") THEN << >>
    ELSE IF m.action = "join_game"
    THEN IF (Has(m, "success") /\ ~m.success) \/ ~Has(m, "avatars")
         THEN << >> ELSE m.avatars
    ELSE IF m.action = "player_joined" /\ Has(m, "avatar")
    THEN << m.avatar >>
    ELSE << >>

\* A slip of line 564: no return after a refusal, which goes on as an ack
HandleNowNoReturn(s, m) ==
    IF ~Has(m, "action")
    THEN IF m.data = "not json" THEN Threw(s) ELSE Ok(s)
    ELSE IF m.action = "join_game"
    THEN IF Has(m, "success") /\ ~m.success
         THEN JoinGameBody(Settle(s, FALSE), m)
         ELSE JoinGameBody(s, m)
    ELSE IF m.action = "player_joined" THEN PlayerJoinedBody(s, m)
    ELSE IF m.action = "players_moved" THEN Ok(PlayersMoved(s, m))
    ELSE IF m.action = "player_left" THEN Ok(PlayerLeft(s, m))
    ELSE Ok(s)

\* lines 557-629 for a message that waits for no image
HandleNow(s, m) ==
    IF ~Has(m, "action")
    THEN IF m.data = "not json" THEN Threw(s) ELSE Ok(s)
    ELSE IF m.action = "join_game"
    THEN IF Has(m, "success") /\ ~m.success
         THEN Ok(Settle(s, FALSE))
         ELSE JoinGameBody(s, m)
    ELSE IF m.action = "player_joined" THEN PlayerJoinedBody(s, m)
    ELSE IF m.action = "players_moved" THEN Ok(PlayersMoved(s, m))
    ELSE IF m.action = "player_left" THEN Ok(PlayerLeft(s, m))
    ELSE Ok(s)

\* The rest of a handler once loadAvatarAtlas has returned
AfterAtlas(s, m) ==
    IF m.action = "join_game" THEN JoinGameBody(s, m)
    ELSE PlayerJoinedBody(s, m)

---------------------------------------------------------------------------
(* loadAvatarAtlas inside a handler: one task per avatar whose frames load *)

\* A handler invocation suspended at line 568 or 593: its message, the
\* avatars still to load, how many are registered, and the position of the
\* avatar whose images fail to load (0: none does).
NewTask(m, failAt) ==
    [msg |-> m, todo |-> AtlasOf(m), done |-> 0, failAt |-> failAt]

\* lines 923-929 for the next avatar of task t, then, after the last one,
\* the rest of the handler; rest holds the task when it stays suspended.
LoadStep(s, t) ==
    IF t.failAt = t.done + 1
    THEN [st |-> s, rest |-> << >>, threw |-> TRUE]
    ELSE LET s1 == [s EXCEPT !.avatarAtlas = @ \cup {Head(t.todo)}]
             r == AfterAtlas(s1, t.msg)
         IN  IF Len(t.todo) = 1
             THEN [st |-> r.st, rest |-> << >>, threw |-> r.threw]
             ELSE [st |-> s1,
                   rest |-> << [t EXCEPT !.todo = Tail(@), !.done = @ + 1] >>,
                   threw |-> FALSE]

RECURSIVE Finish(_, _)
Finish(s, t) ==
    LET r == LoadStep(s, t)
    IN  IF r.rest = << >> THEN r.st ELSE Finish(r.st, r.rest[1])

\* The handler of m run from s with nothing else in between
RunToCompletion(s, m, failAt) ==
    IF AtlasOf(m) = << >> THEN HandleNow(s, m).st
    ELSE Finish(s, NewTask(m, failAt))

---------------------------------------------------------------------------
(* The messages a server may send *)

Entry(pid, p) == [pid |-> pid, p |-> p]

\* the sequences of 1..MaxEntries distinct identifiers
IdSeqs ==
    {q \in UNION {[1..n -> Ids] : n \in 1..MaxEntries} :
        \A i, j \in DOMAIN q : i # j => q[i] # q[j]}

\* the record of the local player in a join ack: complete, or sparse
FullRec ==
    [x |-> MaxCoord, y |-> MaxCoord, username |-> "Ann", avatar |-> "a1",
     facing |-> "west", animationFrame |-> 1, isMoving |-> TRUE]
SelfRecs == {FullRec, [x |-> MaxCoord]}

\* the record of another player in a join ack or a player_joined message
OtherRec(id) ==
    [playerId |-> id, x |-> MaxCoord, y |-> MaxCoord, username |-> "Bob",
     avatar |-> "a1", facing |-> "west", animationFrame |-> 1,
     isMoving |-> TRUE]

\* the players object of a join ack: the local player, player A, or both;
\* an ack that brings the atlas lists the local player first, in full
JoinPlayers(selfId) ==
    UNION {{[i \in DOMAIN q |->
                Entry(q[i], IF q[i] = selfId THEN sr ELSE OtherRec(q[i]))] :
            sr \in SelfRecs} :
           q \in {r \in IdSeqs : \A i \in DOMAIN r : r[i] \in {selfId, "A"}}}

JoinFailure == [action |-> "join_game", success |-> FALSE, error |-> "full"]

JoinAcks ==
    UNION {
        {[action |-> "join_game", success |-> TRUE, playerId |-> id]}
        \cup {[action |-> "join_game", success |-> TRUE, playerId |-> id,
               players |-> ps] : ps \in JoinPlayers(id)}
        \cup {[action |-> "join_game", success |-> TRUE, playerId |-> id,
               avatars |-> << "a1", "a2" >>, players |-> ps] :
              ps \in {q \in JoinPlayers(id) :
                         q[1] = Entry(id, FullRec)}}
        : id \in {SelfId}}

PlayerJoinedMsgs ==
    {[action |-> "player_joined"],
     [action |-> "player_joined", avatar |-> "a2"]}
    \cup {[action |-> "player_joined", player |-> OtherRec(id)] :
          id \in {"A", "B"}}
    \cup {[action |-> "player_joined", avatar |-> "a2",
           player |-> OtherRec(id)] : id \in {"A", "B"}}

\* the partial records of a players_moved entry
MoveRecs ==
    {[x |-> c] : c \in Coords}
    \cup {[username |-> "Ann"], [username |-> "Player"],
          [facing |-> "west", animationFrame |-> 0, isMoving |-> FALSE],
          NullP}

PlayersMovedMsgs ==
    {[action |-> "players_moved"]}
    \cup {[action |-> "players_moved", players |-> << Entry(id, p) >>] :
          id \in Ids, p \in MoveRecs}
    \cup {[action |-> "players_moved",
           players |-> [i \in DOMAIN q |->
                           Entry(q[i], [x |-> MaxCoord, y |-> MaxCoord])]] :
          q \in {r \in IdSeqs : Len(r) > 1}}

PlayerLeftMsgs ==
    {[action |-> "player_left"]}
    \cup {[action |-> "player_left", playerId |-> id] : id \in Ids}

\* a join ack that names no player
JoinNoId == [action |-> "join_game", success |-> TRUE]

\* a binary frame, text that is no JSON, an unknown kind, a reported failure
OtherMsgs ==
    {[data |-> "binary"], [data |-> "not json"], [action |-> "ping"],
     [action |-> "move", success |-> FALSE, error |-> "blocked"], JoinNoId}

Msgs ==
    {JoinFailure} \cup JoinAcks \cup PlayerJoinedMsgs \cup PlayersMovedMsgs
    \cup PlayerLeftMsgs \cup OtherMsgs

---------------------------------------------------------------------------
(* The render tick *)

\* A slip of lines 693-694: the desired position taken as it is
updateCameraUnclamped(sp, w, v) ==
    [x |-> sp.x - ((v.w + 1) \div 2), y |-> sp.y - ((v.h + 1) \div 2)]

\* lines 682-695, with the viewport v in device pixels; for integers,
\* Math.floor(x - v / 2) is x minus v / 2 rounded up
updateCamera(sp, w, v) ==
    LET desiredX == sp.x - ((v.w + 1) \div 2)
        desiredY == sp.y - ((v.h + 1) \div 2)
        maxX == Max(0, w.width - v.w)
        maxY == Max(0, w.height - v.h)
    IN  [x |-> clamp(desiredX, 0, maxX), y |-> clamp(desiredY, 0, maxY)]

ArrowKeys == {"ArrowUp", "ArrowDown", "ArrowLeft", "ArrowRight"}
Keys == ArrowKeys \cup {"a"}

\* A slip of line 713: no prediction while the session is not joined
integrateMovementJoined(s, keys, el) ==
    LET dt == Min(DtCap, Max(0, el))
        dx == (IF "ArrowRight" \in keys THEN 1 ELSE 0)
              - (IF "ArrowLeft" \in keys THEN 1 ELSE 0)
        dy == (IF "ArrowDown" \in keys THEN 1 ELSE 0)
              - (IF "ArrowUp" \in keys THEN 1 ELSE 0)
        dist == MoveSpeed * dt
        part == IF dx # 0 /\ dy # 0 THEN (dist * 7) \div 10 ELSE dist
    IN  IF (dx = 0 /\ dy = 0) \/ s.joined # "true" THEN s
        ELSE [s EXCEPT
                !.selfPlayer.x = clamp(@ + dx * part, 0, Max(0, s.world.width)),
                !.selfPlayer.y = clamp(@ + dy * part, 0, Max(0, s.world.height))]

\* lines 700-729, el units of 50 ms after the last call.  Positions are
\* whole pixels here: on a diagonal each axis gets dist / Math.hypot(1, 1),
\* taken as 7/10 of dist rounded down.
integrateMovement(s, keys, el) ==
    LET dt == Min(DtCap, Max(0, el))
        dx == (IF "ArrowRight" \in keys THEN 1 ELSE 0)
              - (IF "ArrowLeft" \in keys THEN 1 ELSE 0)
        dy == (IF "ArrowDown" \in keys THEN 1 ELSE 0)
              - (IF "ArrowUp" \in keys THEN 1 ELSE 0)
        dist == MoveSpeed * dt
        part == IF dx # 0 /\ dy # 0 THEN (dist * 7) \div 10 ELSE dist
    IN  IF dx = 0 /\ dy = 0 THEN s
        ELSE [s EXCEPT
                !.selfPlayer.x = clamp(@ + dx * part, 0, Max(0, s.world.width)),
                !.selfPlayer.y = clamp(@ + dy * part, 0, Max(0, s.world.height))]

\* lines 920-930: the intrinsic size of the images of each sequence of an
\* atlas entry (one size per facing, each unlike the others and the default)
FrameDims == [south |-> [w |-> 32, h |-> 40],
              east |-> [w |-> 48, h |-> 56],
              north |-> [w |-> 24, h |-> 72]]

DefaultDims == [w |-> 64, h |-> 64]

\* lines 872-886.  fr gives the length of each sequence the atlas entry
\* has.  An array is truthy in JavaScript also when it is empty, so the
\* || of line 881 takes the first sequence that exists, empty or not.
getAvatarSize(p, atlas, fr) ==
    IF p.avatarName = "null" \/ p.avatarName \notin atlas
    THEN [w |-> IF p.avatarWidth = 0 THEN 64 ELSE p.avatarWidth,
          h |-> IF p.avatarHeight = 0 THEN 64 ELSE p.avatarHeight]
    ELSE LET present == SelectSeq(<< "south", "east", "north" >>,
                                  LAMBDA d : d \in DOMAIN fr)
         IN  IF present # << >> /\ fr[Head(present)] > 0
             THEN FrameDims[Head(present)]
             ELSE DefaultDims

\* what drawPlayerSprite gives to ctx.drawImage: a frame of the atlas entry
\* (its facing and index, mirrored or not), the single avatar image, or
\* nothing; w and h are the size it took from getAvatarSize (line 889),
\* 0 before the first call
NothingDrawn == [what |-> "nothing", dir |-> "none", index |-> -1,
                 flip |-> FALSE, w |-> 0, h |-> 0]

\* lines 888-918.  fr gives the length of the sequence of each facing the
\* atlas entry has; frames[i] is undefined for i outside 0..len-1.
drawPlayerSprite(p, atlas, fr) ==
    LET size == getAvatarSize(p, atlas, fr)
        nothing == [NothingDrawn EXCEPT !.w = size.w, !.h = size.h]
    IN
    IF p.avatarName = "null" \/ p.avatarName \notin atlas
    THEN IF p.avatarImage # "null" THEN [nothing EXCEPT !.what = "image"]
         ELSE nothing
    ELSE LET facing == IF p.facing = "" THEN "south" ELSE p.facing
             flip == facing = "west"
             dir == IF flip THEN "east" ELSE facing
             len == IF dir \in DOMAIN fr THEN fr[dir] ELSE 0
             frameIndex == Max(0, Min(2, p.animationFrame))
             chosen == IF frameIndex < len THEN frameIndex
                       ELSE IF 0 < len THEN 0 ELSE -1
         IN  IF chosen = -1 THEN nothing
             ELSE [what |-> "frame", dir |-> dir, index |-> chosen,
                   flip |-> flip, w |-> size.w, h |-> size.h]

\* lines 473-481
directionFromKey(key) ==
    CASE key = "ArrowUp" -> [dx |-> 0, dy |-> -1]
      [] key = "ArrowDown" -> [dx |-> 0, dy |-> 1]
      [] key = "ArrowLeft" -> [dx |-> -1, dy |-> 0]
      [] key = "ArrowRight" -> [dx |-> 1, dy |-> 0]
      [] OTHER -> [dx |-> 0, dy |-> 0]

\* lines 639-648 without the test of line 638: the move is sent whatever
\* the socket is
sendMoveCommandUnguarded(sock, out, dx, dy) ==
    LET direction ==
            IF dx = 0 /\ dy = -1 THEN "up"
            ELSE IF dx = 0 /\ dy = 1 THEN "down"
            ELSE IF dx = -1 /\ dy = 0 THEN "left"
            ELSE IF dx = 1 /\ dy = 0 THEN "right"
            ELSE "null"
    IN  IF direction = "null" THEN out
        ELSE Append(out, [action |-> "move", direction |-> direction])

\* lines 637-649: what socket.send has been given after the call
sendMoveCommand(sock, out, dx, dy) ==
    IF sock # "open" THEN out
    ELSE LET direction ==
                 IF dx = 0 /\ dy = -1 THEN "up"
                 ELSE IF dx = 0 /\ dy = 1 THEN "down"
                 ELSE IF dx = -1 /\ dy = 0 THEN "left"
                 ELSE IF dx = 1 /\ dy = 0 THEN "right"
                 ELSE "null"
         IN  IF direction = "null" THEN out
             ELSE Append(out, [action |-> "move", direction |-> direction])

---------------------------------------------------------------------------
(* Initial state and actions *)

\* the state when init is called (line 799)
State0 ==
    [world |-> [width |-> 0, height |-> 0], selfPlayer |-> selfPlayer0,
     players |-> NoPlayers, avatarAtlas |-> {}, labelCanvas |-> "null",
     settled |-> FALSE, joined |-> "pending", initpc |-> "loadMap"]

\* no key is held (line 444), the clock stands at lastTs (line 697), the
\* window has its size, nothing is drawn
InputInit ==
    /\ pressedKeys = {}
    /\ elapsed = 0
    /\ keyEvents = 0
    /\ view = [w |-> ViewW, h |-> ViewH]
    /\ frames = [north |-> 1, south |-> 1, east |-> 1]
    /\ drawn = NothingDrawn

Init ==
    /\ world = [width |-> 0, height |-> 0]
    /\ selfPlayer = selfPlayer0
    /\ players = NoPlayers
    /\ avatarAtlas = {}
    /\ labelCanvas = "null"
    /\ camera = [x |-> 0, y |-> 0]
    /\ socket = "null"
    /\ sent = << >>
    /\ settled = FALSE
    /\ joined = "pending"
    /\ initpc = "loadMap"
    /\ avatarParam = FALSE
    /\ tasks = << >>
    /\ delivered = 0
    /\ lastDone = [msg |-> [action |-> "none"], threw |-> FALSE]
    /\ seq = State0
    /\ InputInit

\* What an event outside the message handler does to the state
Event(f(_)) ==
    /\ Install(f(Cur))
    /\ seq' = f(seq)

\* lines 505-530 and 801: the map image loads, or no candidate does
MapLoaded(s) ==
    [s EXCEPT !.world = [width |-> WorldW, height |-> WorldH],
              !.initpc = "connect"]
MapMissing(s) == [s EXCEPT !.initpc = "connect"]

LoadMap ==
    /\ initpc = "loadMap"
    /\ \/ Event(MapLoaded)
       \/ Event(MapMissing)
    /\ UNCHANGED <<camera, socket, sent, avatarParam, tasks, delivered,
                   lastDone>>
    /\ UNCHANGED inputVars

\* lines 537-547: the socket is created
Connecting(s) == [s EXCEPT !.initpc = "awaitJoin"]
\* lines 539-543: the constructor throws
ConnectFailed(s) == resolve([s EXCEPT !.initpc = "awaitJoin"], FALSE)

ConnectAndJoin ==
    /\ initpc = "connect"
    /\ \/ Event(Connecting) /\ socket' = "connecting"
       \/ Event(ConnectFailed) /\ socket' = socket
    /\ UNCHANGED <<camera, sent, avatarParam, tasks, delivered,
                   lastDone>>
    /\ UNCHANGED inputVars

\* lines 548-554: socket.onopen
SocketOpen ==
    /\ socket = "connecting"
    /\ socket' = "open"
    /\ sent' = Append(sent, [action |-> "join_game",
                             username |-> selfPlayer.name])
    /\ UNCHANGED <<world, selfPlayer, players, avatarAtlas, labelCanvas,
                   camera, settled, joined, initpc, avatarParam, tasks,
                   delivered, lastDone, seq>>
    /\ UNCHANGED inputVars

\* A slip of lines 632-633: callbacks that do nothing
SettleFalseIgnored(s) == s

\* lines 632-633: the body of socket.onerror and of socket.onclose
SettleFalse(s) == Settle(s, FALSE)

\* line 632: socket.onerror.  The close event that follows an error finds
\* settled set and does nothing (line 633): it is part of this action.
SocketError ==
    /\ socket \in {"connecting", "open"}
    /\ socket' = "closed"
    /\ Event(SettleFalse)
    /\ UNCHANGED <<camera, sent, avatarParam, tasks, delivered,
                   lastDone>>
    /\ UNCHANGED inputVars

\* line 633: socket.onclose
SocketClose ==
    /\ socket \in {"connecting", "open"}
    /\ socket' = "closed"
    /\ Event(SettleFalse)
    /\ UNCHANGED <<camera, sent, avatarParam, tasks, delivered,
                   lastDone>>
    /\ UNCHANGED inputVars

\* lines 556-630: socket.onmessage for message m, up to its end or up to
\* its first wait for an image
Deliver(m, failAt) ==
    /\ socket = "open"
    /\ delivered < MaxMsgs
    /\ delivered' = delivered + 1
    /\ IF AtlasOf(m) = << >>
       THEN /\ Install(HandleNow(Cur, m).st)
            /\ lastDone' = [msg |-> m, threw |-> HandleNow(Cur, m).threw]
            /\ tasks' = tasks
       ELSE /\ Len(tasks) < MaxPending
            /\ tasks' = Append(tasks, NewTask(m, failAt))
            /\ lastDone' = lastDone
            /\ Install(Cur)
    /\ seq' = RunToCompletion(seq, m, failAt)
    /\ UNCHANGED <<camera, socket, sent, avatarParam>>
    /\ UNCHANGED inputVars

\* The images of the next avatar of suspended handler i have loaded, or
\* one of them has failed: the handler continues (lines 925-929, 570-590,
\* 595-597, 627-629)
AtlasLoaded(i) ==
    /\ i \in 1..Len(tasks)
    /\ LET r == LoadStep(Cur, tasks[i])
       IN  /\ Install(r.st)
           /\ tasks' = SubSeq(tasks, 1, i - 1) \o r.rest
                       \o SubSeq(tasks, i + 1, Len(tasks))
           /\ lastDone' = IF r.rest = << >>
                          THEN [msg |-> tasks[i].msg, threw |-> r.threw]
                          ELSE lastDone
    /\ UNCHANGED <<camera, socket, sent, avatarParam, delivered, seq>>
    /\ UNCHANGED inputVars

\* lines 817-828 and 849-851: the image of ?avatar= loads, or fails to
AvatarLoaded(s) ==
    IF s.initpc # "loadAvatar" THEN s
    ELSE InitFinish([s EXCEPT !.selfPlayer.avatarImage = "custom"])
AvatarFailed(s) ==
    IF s.initpc # "loadAvatar" THEN s ELSE InitFinish(s)

InitAvatar ==
    /\ initpc = "loadAvatar"
    /\ \/ Event(AvatarLoaded)
       \/ Event(AvatarFailed)
    /\ UNCHANGED <<camera, socket, sent, avatarParam, tasks, delivered,
                   lastDone>>
    /\ UNCHANGED inputVars

\* lines 794-797 and 731-792: one animation frame.  draw sets the camera
\* from the position it finds (line 733), then integrateMovement moves the
\* local entity and sets lastTs (lines 740, 703); the local entity's
\* sprite is drawn from the state so reached (line 759).
Tick ==
    /\ initpc = "loop"
    /\ camera' = updateCamera(selfPlayer, world, view)
    /\ Install(integrateMovement(Cur, pressedKeys, elapsed))
    /\ seq' = integrateMovement(seq, pressedKeys, elapsed)
    /\ elapsed' = 0
    /\ drawn' = drawPlayerSprite(
                    integrateMovement(Cur, pressedKeys, elapsed).selfPlayer,
                    avatarAtlas, frames)
    /\ UNCHANGED <<socket, sent, avatarParam, tasks, delivered, lastDone,
                   pressedKeys, keyEvents, view, frames>>

Next ==
    \/ LoadMap
    \/ ConnectAndJoin
    \/ SocketOpen
    \/ SocketError
    \/ SocketClose
    \/ \E m \in Msgs : \E failAt \in 0..Len(AtlasOf(m)) : Deliver(m, failAt)
    \/ \E i \in 1..MaxPending : AtlasLoaded(i)
    \/ Tick

Spec == Init /\ [][Next]_vars

\* Spec with what the browser does by itself: a pending image load settles,
\* a connecting socket opens unless it fails, init goes on when what it
\* awaits has settled, an animation frame comes.  What the server sends,
\* and whether the connection ends, is left to the server and the network.
LiveSpec ==
    /\ Init
    /\ [][Next]_vars
    /\ WF_vars(LoadMap)
    /\ WF_vars(ConnectAndJoin)
    /\ WF_vars(SocketOpen)
    /\ \A i \in 1..MaxPending : WF_vars(AtlasLoaded(i))
    /\ WF_vars(Tick)

\* The start of a session: the page may name an avatar image, and the
\* server sends what decides the join, and a move of the local player.
BootInit ==
    \E b \in BOOLEAN :
        /\ avatarParam = b
        /\ world = [width |-> 0, height |-> 0]
        /\ selfPlayer = selfPlayer0
        /\ players = NoPlayers
        /\ avatarAtlas = {}
        /\ labelCanvas = "null"
        /\ camera = [x |-> 0, y |-> 0]
        /\ socket = "null"
        /\ sent = << >>
        /\ settled = FALSE
        /\ joined = "pending"
        /\ initpc = "loadMap"
        /\ tasks = << >>
        /\ delivered = 0
        /\ lastDone = [msg |-> [action |-> "none"], threw |-> FALSE]
        /\ seq = State0
        /\ InputInit

BootMsgs ==
    {JoinFailure} \cup JoinAcks
    \cup {[action |-> "players_moved",
           players |-> << Entry(SelfId, [x |-> 0]) >>]}

BootNext ==
    \/ LoadMap
    \/ ConnectAndJoin
    \/ SocketOpen
    \/ SocketError
    \/ SocketClose
    \/ \E m \in BootMsgs :
          \E failAt \in 0..Len(AtlasOf(m)) : Deliver(m, failAt)
    \/ \E i \in 1..MaxPending : AtlasLoaded(i)
    \/ InitAvatar
    \/ Tick

BootSpec == BootInit /\ [][BootNext]_vars

---------------------------------------------------------------------------
(* The keyboard and the clock *)

\* the listeners of lines 861-863 are added when init reaches line 869
Listening == initpc = "loop" /\ keyEvents < MaxKeyEvents

\* lines 446-455: handleKeyDown, for a first press and for a repeat alike
KeyDown(k) ==
    /\ Listening
    /\ keyEvents' = keyEvents + 1
    /\ IF k \in ArrowKeys
       THEN /\ pressedKeys' = pressedKeys \cup {k}
            /\ sent' = sendMoveCommand(socket, sent, directionFromKey(k).dx,
                                       directionFromKey(k).dy)
       ELSE UNCHANGED <<pressedKeys, sent>>
    /\ UNCHANGED <<world, selfPlayer, players, avatarAtlas, labelCanvas,
                   camera, socket, settled, joined, initpc, avatarParam, tasks,
                   delivered, lastDone, seq, elapsed, view, frames, drawn>>

\* lines 457-471: handleKeyUp
KeyUp(k) ==
    /\ Listening
    /\ keyEvents' = keyEvents + 1
    /\ IF k \in ArrowKeys
       THEN /\ pressedKeys' = pressedKeys \ {k}
            /\ sent' = IF pressedKeys' = {} /\ socket = "open"
                       THEN Append(sent, [action |-> "stop"])
                       ELSE sent
       ELSE UNCHANGED <<pressedKeys, sent>>
    /\ UNCHANGED <<world, selfPlayer, players, avatarAtlas, labelCanvas,
                   camera, socket, settled, joined, initpc, avatarParam, tasks,
                   delivered, lastDone, seq, elapsed, view, frames, drawn>>

\* line 863: the window loses the focus
Blur ==
    /\ Listening
    /\ keyEvents' = keyEvents + 1
    /\ pressedKeys' = {}
    /\ UNCHANGED <<world, selfPlayer, players, avatarAtlas, labelCanvas,
                   camera, socket, sent, settled, joined, initpc, avatarParam,
                   tasks, delivered, lastDone, seq, elapsed, view, frames,
                   drawn>>

\* 50 ms pass (performance.now() at line 701 against lastTs).  Beyond
\* MaxElapsed the clock reads the same for line 702; before the loop runs
\* nothing reads it.
Advance ==
    /\ initpc = "loop"
    /\ elapsed < MaxElapsed
    /\ elapsed' = elapsed + 1
    /\ UNCHANGED <<world, selfPlayer, players, avatarAtlas, labelCanvas,
                   camera, socket, sent, settled, joined, initpc, avatarParam,
                   tasks, delivered, lastDone, seq, pressedKeys, keyEvents,
                   view, frames, drawn>>

\* the keys the user touches: three of the arrows, which the handlers treat
\* as they treat the fourth, and a letter
PlayKeys == {"ArrowLeft", "ArrowRight", "ArrowDown", "a"}

\* what the server sends about the local player: the answer to the join,
\* with a spawn position, and a correction that puts the local
\* player beyond the map's right edge
PlayMsgs ==
    {JoinFailure,
     [action |-> "join_game", success |-> TRUE, playerId |-> SelfId,
      players |-> << Entry(SelfId, [x |-> MaxCoord]) >>],
     [action |-> "players_moved",
      players |-> << Entry(SelfId, [x |-> WorldW + 1]) >>]}

PlayNext ==
    \/ LoadMap
    \/ ConnectAndJoin
    \/ SocketOpen
    \/ SocketClose
    \/ \E m \in PlayMsgs : Deliver(m, 0)
    \/ \E k \in PlayKeys : KeyDown(k)
    \/ \E k \in PlayKeys : KeyUp(k)
    \/ Blur
    \/ Advance
    \/ Tick

PlaySpec == Init /\ [][PlayNext]_vars

---------------------------------------------------------------------------
(* integrateMovement on its own *)

\* what socket.send has been given once the keys of q have gone down in
\* that order on an open socket
RECURSIVE SentFor(_, _)
SentFor(out, q) ==
    IF q = << >> THEN out
    ELSE SentFor(sendMoveCommand("open", out, directionFromKey(Head(q)).dx,
                                 directionFromKey(Head(q)).dy), Tail(q))

HeldInOrder(ks) ==
    SelectSeq(<< "ArrowUp", "ArrowDown", "ArrowLeft", "ArrowRight" >>,
              LAMBDA k : k \in ks)

JoinRequest == [action |-> "join_game", username |-> "Lynn"]
BareAck == [action |-> "join_game", success |-> TRUE, playerId |-> SelfId]

\* A session whose loop runs, in each state of the network: the socket
\* never created, open with the join accepted, open with the join
\* refused, closed before any answer.  The map has loaded or not; the
\* local entity stands anywhere in the world, any set of arrow keys is
\* held, and up to MaxElapsed units have passed since a tick that set the
\* camera.
MoveInit ==
    \E net \in {"never", "accepted", "refused", "closed"}, loaded \in BOOLEAN,
       ks \in SUBSET ArrowKeys, el \in 0..MaxElapsed :
      \E px \in 0..(IF loaded THEN WorldW ELSE 0),
         py \in 0..(IF loaded THEN WorldH ELSE 0) :
        /\ world = IF loaded THEN [width |-> WorldW, height |-> WorldH]
                   ELSE [width |-> 0, height |-> 0]
        /\ selfPlayer =
               [selfPlayer0 EXCEPT
                  !.id = IF net = "accepted" THEN SelfId ELSE "null",
                  !.x = px, !.y = py, !.avatarImage = "placeholder"]
        /\ socket = CASE net = "never" -> "null"
                       [] net = "closed" -> "closed"
                       [] OTHER -> "open"
        /\ joined = IF net = "accepted" THEN "true" ELSE "false"
        /\ sent = CASE net = "never" -> << >>
                     [] net = "closed" -> << JoinRequest >>
                     [] OTHER -> SentFor(<< JoinRequest >>, HeldInOrder(ks))
        /\ delivered = IF net \in {"accepted", "refused"} THEN 1 ELSE 0
        /\ lastDone = [msg |-> CASE net = "accepted" -> BareAck
                                 [] net = "refused" -> JoinFailure
                                 [] OTHER -> [action |-> "none"],
                       threw |-> FALSE]
        /\ pressedKeys = ks
        /\ keyEvents = Cardinality(ks)
        /\ elapsed = el
    /\ players = NoPlayers
    /\ avatarAtlas = {}
    /\ labelCanvas = "Lynn"
    /\ view = [w |-> ViewW, h |-> ViewH]
    /\ camera = updateCamera(selfPlayer, world, view)
    /\ settled = TRUE
    /\ initpc = "loop"
    /\ avatarParam = FALSE
    /\ tasks = << >>
    /\ seq = [world |-> world, selfPlayer |-> selfPlayer, players |-> players,
              avatarAtlas |-> avatarAtlas, labelCanvas |-> labelCanvas,
              settled |-> settled, joined |-> joined, initpc |-> initpc]
    /\ frames = [north |-> 1, south |-> 1, east |-> 1]
    /\ drawn = NothingDrawn

MoveNext == Tick

MoveSpec == MoveInit /\ [][MoveNext]_vars

---------------------------------------------------------------------------
(* updateCamera on its own *)

\* A joined session whose loop runs: the map image has any size up to
\* WorldW x WorldH, the window any size up to one more than ViewW x ViewH,
\* and the server has put the local entity anywhere, outside the map too.
CameraInit ==
    /\ \E W \in 0..WorldW, H \in {0, WorldH} :
           world = [width |-> W, height |-> H]
    /\ \E vw \in 0..(ViewW + 1), vh \in {ViewH, WorldH + 1} :
           view = [w |-> vw, h |-> vh]
    /\ \E px \in (-2)..(WorldW + 2), py \in {-2, 0, WorldH, WorldH + 2} :
           selfPlayer = [selfPlayer0 EXCEPT !.id = SelfId, !.x = px, !.y = py,
                                           !.avatarImage = "placeholder"]
    /\ players = NoPlayers
    /\ avatarAtlas = {}
    /\ labelCanvas = "Lynn"
    /\ camera = [x |-> 0, y |-> 0]
    /\ socket = "open"
    /\ sent = << [action |-> "join_game", username |-> "Lynn"] >>
    /\ settled = TRUE
    /\ joined = "true"
    /\ initpc = "loop"
    /\ avatarParam = FALSE
    /\ tasks = << >>
    /\ delivered = MaxMsgs
    /\ lastDone = [msg |-> [action |-> "none"], threw |-> FALSE]
    /\ seq = [world |-> world, selfPlayer |-> selfPlayer, players |-> players,
              avatarAtlas |-> avatarAtlas, labelCanvas |-> labelCanvas,
              settled |-> settled, joined |-> joined, initpc |-> initpc]
    /\ pressedKeys = {}
    /\ elapsed = 0
    /\ keyEvents = 0
    /\ frames = [north |-> 1, south |-> 1, east |-> 1]
    /\ drawn = NothingDrawn

CameraNext == Tick

CameraSpec == CameraInit /\ [][CameraNext]_vars

---------------------------------------------------------------------------
(* drawPlayerSprite on its own *)

Facings == {"north", "south", "east", "west", "up", ""}

\* A joined session whose loop runs, with one avatar in the atlas.  Its
\* south and east sequences have any length 0..MaxFrames, its north
\* sequence is empty or full (line 928 sets all three).
\* The local entity wears that avatar, another or none, faces any way,
\* and the server has given it any animationFrame in -1..MaxFrames + 1.
DrawInit ==
    /\ \E name \in {"null"} \cup AvatarNames, f \in Facings,
          af \in (-1)..(MaxFrames + 1), img \in {"null", "placeholder"} :
           selfPlayer = [selfPlayer0 EXCEPT !.id = SelfId,
                                           !.avatarName = name,
                                           !.facing = f,
                                           !.animationFrame = af,
                                           !.avatarImage = img]
    /\ \E s \in 0..MaxFrames, e \in 0..MaxFrames, n \in {0, MaxFrames} :
           frames = [north |-> n, south |-> s, east |-> e]
    /\ avatarAtlas = {"a1"}
    /\ world = [width |-> WorldW, height |-> WorldH]
    /\ view = [w |-> ViewW, h |-> ViewH]
    /\ players = NoPlayers
    /\ labelCanvas = "Lynn"
    /\ camera = [x |-> 0, y |-> 0]
    /\ socket = "open"
    /\ sent = << [action |-> "join_game", username |-> "Lynn"] >>
    /\ settled = TRUE
    /\ joined = "true"
    /\ initpc = "loop"
    /\ avatarParam = FALSE
    /\ tasks = << >>
    /\ delivered = MaxMsgs
    /\ lastDone = [msg |-> [action |-> "none"], threw |-> FALSE]
    /\ seq = [world |-> world, selfPlayer |-> selfPlayer, players |-> players,
              avatarAtlas |-> avatarAtlas, labelCanvas |-> labelCanvas,
              settled |-> settled, joined |-> joined, initpc |-> initpc]
    /\ pressedKeys = {}
    /\ elapsed = 0
    /\ keyEvents = 0
    /\ drawn = NothingDrawn

DrawNext == Tick

DrawSpec == DrawInit /\ [][DrawNext]_vars

---------------------------------------------------------------------------
(* Vocabulary of the claims *)

\* the message is an object whose action is a
IsAction(m, a) == Has(m, "action") /\ m.action = a

\* the fields of the local entity that reconciliation writes
Local(sp) ==
    [id |-> sp.id, name |-> sp.name, x |-> sp.x, y |-> sp.y,
     facing |-> sp.facing, animationFrame |-> sp.animationFrame,
     isMoving |-> sp.isMoving, avatarName |-> sp.avatarName]

\* the identifiers a players object lists
Listed(entries) == {entries[i].pid : i \in DOMAIN entries}

\* the entry of identifier id in a players object
EntryOf(entries, id) ==
    entries[CHOOSE i \in DOMAIN entries : entries[i].pid = id].p

\* the field of an entity that a field of a message is stored in
FieldOf(f) == IF f = "username" THEN "name" ELSE f

MoveFields == {"x", "y", "facing", "animationFrame", "isMoving", "username"}

\* entity new carries every field that record p gives
Carries(new, p) ==
    \A f \in MoveFields \cap DOMAIN p :
        Has(new, FieldOf(f)) /\ new[FieldOf(f)] = p[f]

\* every field that record p does not give is in new what it was in old
Retains(old, new, p) ==
    /\ \A g \in (DOMAIN old \cup DOMAIN new)
                \ ({FieldOf(f) : f \in DOMAIN p} \cup {"labelCanvas"}) :
           Has(old, g) /\ Has(new, g) /\ new[g] = old[g]
    /\ ~Has(p, "username") => new.labelCanvas = old.labelCanvas

\* everything but the roster
Rest(s) == [s EXCEPT !.players = NoPlayers]

---------------------------------------------------------------------------
(* C1.  The roster snapshot of a join ack replaces the roster: once the   *)
(* ack is reconciled, the roster holds exactly the identifiers the         *)
(* snapshot lists, the local one excepted; an entity that is not listed    *)
(* is removed.                                                             *)
C1_SnapshotReplacesRoster ==
    LET m == lastDone.msg
    IN  (IsAction(m, "join_game") /\ Has(m, "players") /\ m.success)
            => DOMAIN players = Listed(m.players) \ {selfPlayer.id}

(* C2.  A join ack is idempotent: reconciled twice in a row, a join ack    *)
(* (or a join failure) leaves the roster, the local entity, the join       *)
(* outcome and all the rest of the state as reconciling it once does, and  *)
(* it adds no roster entry.                                                *)
C2_JoinAckIdempotent ==
    socket = "open" =>
        \A m \in JoinAcks \cup {JoinFailure} :
            \A f \in 0..Len(AtlasOf(m)) :
                LET once == RunToCompletion(Cur, m, f)
                    twice == RunToCompletion(once, m, f)
                IN  /\ twice = once
                    /\ DOMAIN twice.players = DOMAIN players

\* A session that has joined as Ann with its server identifier: a second
\* copy of the ack it got is reconciled from here.
C2_Witness ==
    /\ socket = "open"
    /\ joined = "true"
    /\ selfPlayer.id = SelfId
    /\ selfPlayer.name = "Ann"
    /\ selfPlayer.x = MaxCoord
    /\ delivered < MaxMsgs

(* C3.  Once a player_joined message with a player record is reconciled, *)
(* the roster holds an entity for the record's identifier with the         *)
(* record's fields.                                                        *)
C3_PlayerJoinedUpserts ==
    LET m == lastDone.msg
    IN  (IsAction(m, "player_joined") /\ Has(m, "player"))
            => /\ m.player.playerId \in DOMAIN players
               /\ Carries(players[m.player.playerId], m.player)

(* C4.  A players_moved entry for another player applies the fields it     *)
(* gives and nothing else: the fields it does not give, the other roster   *)
(* entities, the local entity and, for a known identifier, the roster's    *)
(* key set stay as they were.                                              *)
C4_PartialUpdate ==
    [][(/\ delivered' = delivered + 1
        /\ tasks' = tasks
        /\ IsAction(lastDone'.msg, "players_moved")
        /\ Has(lastDone'.msg, "players"))
       => LET m == lastDone'.msg
              touched == {id \in Listed(m.players) :
                             /\ ~IsFalsy(EntryOf(m.players, id))
                             /\ id # selfPlayer.id}
          IN  /\ DOMAIN players' = DOMAIN players \cup touched
              /\ \A id \in DOMAIN players :
                     IF id \in touched
                     THEN /\ Carries(players'[id], EntryOf(m.players, id))
                          /\ Retains(players[id], players'[id],
                                     EntryOf(m.players, id))
                     ELSE players'[id] = players[id]
              /\ selfPlayer.id \notin Listed(m.players)
                     => selfPlayer' = selfPlayer
              /\ UNCHANGED <<world, avatarAtlas, labelCanvas, camera,
                             socket, sent, settled, joined, initpc>>
      ]_vars

\* An entity whose x an entry has set to 0 after both coordinates were
\* MaxCoord: y is retained.
C4_Witness ==
    \E id \in DOMAIN players :
        /\ players[id].x = 0
        /\ players[id].y = MaxCoord
        /\ players[id].name = "Player"

(* C5.  A player_left message removes the roster entry of its identifier   *)
(* and nothing else; with an identifier the roster does not hold, or with  *)
(* none, nothing changes.                                                  *)
C5_Removal ==
    socket = "open" =>
        \A m \in PlayerLeftMsgs :
            LET s2 == HandleNow(Cur, m).st
            IN  /\ Rest(s2) = Rest(Cur)
                /\ IF Has(m, "playerId") /\ m.playerId \in DOMAIN players
                   THEN /\ DOMAIN s2.players = DOMAIN players \ {m.playerId}
                        /\ \A k \in DOMAIN s2.players :
                               s2.players[k] = players[k]
                   ELSE s2 = Cur

\* A roster of two entities with the socket open: a player_left for one of
\* them, for the third identifier or for none is reconciled from here.
C5_Witness ==
    /\ socket = "open"
    /\ DOMAIN players = {"A", "B"}
    /\ delivered < MaxMsgs

(* C6.  A players_moved entry for an identifier the roster does not hold   *)
(* creates the entity with the fields the entry gives and the defaults     *)
(* elsewhere (name "Player", position 0,0, avatar 48 x 48); a later        *)
(* player_joined for that identifier updates that entity in place.         *)
ImplicitUpsert ==
    socket = "open" =>
        \A id \in Ids \ (DOMAIN players \cup {selfPlayer.id}) :
            \A p \in MoveRecs \ {NullP} :
                LET m == [action |-> "players_moved",
                          players |-> << Entry(id, p) >>]
                    s2 == HandleNow(Cur, m).st
                    new == s2.players[id]
                IN  /\ DOMAIN s2.players = DOMAIN players \cup {id}
                    /\ Carries(new, p)
                    /\ new.name = IF Has(p, "username") THEN p.username
                                  ELSE "Player"
                    /\ new.x = IF Has(p, "x") THEN p.x ELSE 0
                    /\ new.y = IF Has(p, "y") THEN p.y ELSE 0
                    /\ new.avatarWidth = 48
                    /\ new.avatarHeight = 48

JoinedUpdatesInPlace ==
    LET m == lastDone.msg
    IN  (/\ IsAction(m, "player_joined")
         /\ Has(m, "player")
         /\ m.player.playerId \in DOMAIN players)
            => Carries(players[m.player.playerId], m.player)

C6_MoveBeforeJoin == ImplicitUpsert /\ JoinedUpdatesInPlace

(* C7.  Exactly one self: the roster of the other players never holds an  *)
(* entry under the identifier of the local player, whatever the order of   *)
(* the inbound messages.                                                   *)
C7_ExactlyOneSelf == selfPlayer.id \notin DOMAIN players

(* C8.  Inbound messages take effect in delivery order: with every         *)
(* handler finished, the roster and the local entity are what applying     *)
(* the messages one at a time, each to completion, in delivery order       *)
(* gives.                                                                  *)
C8_DeliveryOrder ==
    (socket = "open" /\ tasks = << >>)
        => /\ players = seq.players
           /\ Local(selfPlayer) = Local(seq.selfPlayer)

(* C9.  Reconciliation is atomic for a render tick: while the loop runs,   *)
(* no message is applied in part, so a tick never reads the state between  *)
(* two writes of one handler.                                              *)
C9_AtomicForTick ==
    initpc = "loop" => \A i \in DOMAIN tasks : tasks[i].done = 0

(* C10.  Offline fallback: when the socket cannot be created, errors or    *)
(* closes before a join ack has settled the join, or the server refuses    *)
(* the join, connectAndJoin gives false, the local entity is put at the    *)
(* centre of the map when the map is loaded, and init goes on to start     *)
(* the render loop (at once, or when the image of ?avatar= has loaded or   *)
(* failed); no second connection is made.                                  *)
Fallback(s) ==
    /\ s.joined = "false"
    /\ IF world.width > 0 /\ world.height > 0
       THEN /\ s.selfPlayer.x = world.width \div 2
            /\ s.selfPlayer.y = world.height \div 2
       ELSE /\ s.selfPlayer.x = selfPlayer.x
            /\ s.selfPlayer.y = selfPlayer.y
    /\ \/ s.initpc = "loop"
       \/ /\ s.initpc = "loadAvatar"
          /\ AvatarLoaded(s).initpc = "loop"
          /\ AvatarFailed(s).initpc = "loop"

C10_OfflineFallback ==
    /\ initpc = "connect" => Fallback(ConnectFailed(Cur))
    /\ (socket \in {"connecting", "open"} /\ ~settled)
           => Fallback(SettleFalse(Cur))
    /\ (socket = "open" /\ ~settled)
           => Fallback(HandleNow(Cur, JoinFailure).st)
    /\ socket = "closed" => joined # "pending"
    /\ (socket = "null" /\ initpc \notin {"loadMap", "connect"})
           => joined = "false"
    /\ joined = "false" => initpc \in {"loadAvatar", "loop"}
    /\ Len(sent) <= 1

\* The socket has closed before any join ack: the session is offline, at
\* the centre of the loaded map, and the loop runs.
C10_Witness ==
    /\ socket = "closed"
    /\ joined = "false"
    /\ selfPlayer.id = "null"
    /\ world.width = WorldW
    /\ selfPlayer.x = WorldW \div 2
    /\ selfPlayer.y = WorldH \div 2
    /\ initpc = "loop"

(* C11.  Waiting on the channel never blocks rendering: whatever the       *)
(* server does, the render loop eventually starts.                         *)
C11_RenderingStarts == <>(initpc = "loop")

(* C12.  An inbound message that is not a string, is no JSON, has an       *)
(* unknown action or lacks the field its kind requires is discarded: its   *)
(* delivery leaves the roster, the local entity, the atlas and the join    *)
(* outcome as they were, and the socket open.                              *)
Malformed ==
    {[data |-> "binary"], [data |-> "not json"], [action |-> "ping"],
     [action |-> "player_joined"], [action |-> "players_moved"],
     [action |-> "player_left"], JoinNoId}

C12_MalformedDiscarded ==
    [][(/\ delivered' = delivered + 1
        /\ tasks' = tasks
        /\ lastDone'.msg \in Malformed)
       => /\ UNCHANGED <<players, selfPlayer, avatarAtlas, joined>>
          /\ socket' = "open"
      ]_vars

(* C13.  A message that reports the failure of an action of the client     *)
(* (success false) changes neither the roster nor the identifier and the   *)
(* name of the local entity, and its handler raises no exception; the      *)
(* position stays too, but for a join refusal that arrives while the join  *)
(* is pending: that one makes the session offline, which puts the local    *)
(* entity at the centre of the loaded map.                                 *)
FailureDelivered ==
    /\ delivered' = delivered + 1
    /\ tasks' = tasks
    /\ Has(lastDone'.msg, "success")
    /\ ~lastDone'.msg.success

C13_FailureKeepsState ==
    [][FailureDelivered
       => /\ players' = players
          /\ selfPlayer'.id = selfPlayer.id
          /\ selfPlayer'.name = selfPlayer.name
          /\ ~lastDone'.threw
          /\ IF /\ IsAction(lastDone'.msg, "join_game")
                /\ joined = "pending"
                /\ world.width > 0 /\ world.height > 0
             THEN /\ selfPlayer'.x = world.width \div 2
                  /\ selfPlayer'.y = world.height \div 2
             ELSE /\ selfPlayer'.x = selfPlayer.x
                  /\ selfPlayer'.y = selfPlayer.y
      ]_vars

\* A failure of a move has been reported to a joined session whose local
\* entity stands where the join ack put it.
C13_Witness ==
    /\ IsAction(lastDone.msg, "move")
    /\ ~lastDone.msg.success
    /\ joined = "true"
    /\ selfPlayer.id = SelfId
    /\ selfPlayer.x = MaxCoord

(* C13 as the specification words it: after a message with success false   *)
(* the roster and the identifier, position and name of the local entity    *)
(* are what they were before it.                                           *)
C13_FailureMutatesNothing ==
    [][FailureDelivered
       => /\ players' = players
          /\ selfPlayer'.id = selfPlayer.id
          /\ selfPlayer'.name = selfPlayer.name
          /\ selfPlayer'.x = selfPlayer.x
          /\ selfPlayer'.y = selfPlayer.y
          /\ ~lastDone'.threw
      ]_vars

(* C14.  Camera bounds: for every world size, viewport size and position   *)
(* of the local entity, what updateCamera gives is within 0 and            *)
(* max(0, W - Vw) on x and within 0 and max(0, H - Vh) on y, and is 0 on   *)
(* an axis where the world is smaller than the viewport; world 2000 x      *)
(* 2000, viewport 800 x 600 and position (1990, 1990) give (1200, 1400).   *)
C14_CameraBounds ==
    LET c == updateCamera(selfPlayer, world, view)
    IN  /\ 0 <= c.x /\ c.x <= Max(0, world.width - view.w)
        /\ 0 <= c.y /\ c.y <= Max(0, world.height - view.h)
        /\ world.width < view.w => c.x = 0
        /\ world.height < view.h => c.y = 0
        /\ updateCamera([x |-> 1990, y |-> 1990],
                        [width |-> 2000, height |-> 2000],
                        [w |-> 800, h |-> 600]) = [x |-> 1200, y |-> 1400]

\* A tick has set the camera for a local entity right of the map and above
\* it: the camera is at the map's right end and at its top.
C14_Witness ==
    /\ selfPlayer.x > world.width
    /\ selfPlayer.y < 0
    /\ world.width > view.w
    /\ view.w > 0
    /\ camera = [x |-> world.width - view.w, y |-> 0]

(* C15.  The local position stays in the world: once the loop runs,        *)
(* 0 <= x <= world.width and 0 <= y <= world.height, whatever ticks, key   *)
(* events, join acks and players_moved corrections have occurred.          *)
C15_LocalInWorld ==
    initpc = "loop"
        => /\ 0 <= selfPlayer.x /\ selfPlayer.x <= world.width
           /\ 0 <= selfPlayer.y /\ selfPlayer.y <= world.height

(* C16.  Move intents are sent on edges only: with the socket open, a      *)
(* move message for a direction is sent in exactly the steps in which the  *)
(* key of that direction goes from not held to held; a key-down for a key  *)
(* already held sends nothing, and neither does a tick.                    *)
DirectionOf(k) ==
    CASE k = "ArrowUp" -> "up"
      [] k = "ArrowDown" -> "down"
      [] k = "ArrowLeft" -> "left"
      [] k = "ArrowRight" -> "right"

MoveSent(d) == sent' = Append(sent, [action |-> "move", direction |-> d])

C16_MoveOnEdges ==
    [][\A k \in ArrowKeys :
          MoveSent(DirectionOf(k))
              <=> (socket = "open" /\ k \notin pressedKeys
                   /\ k \in pressedKeys')
      ]_vars

(* C17.  Stop intent on last release: with the socket open, a stop         *)
(* message is sent in exactly the steps in which the set of held           *)
(* directions goes from non-empty to empty.                                *)
StopSent == sent' = Append(sent, [action |-> "stop"])

C17_StopOnLastRelease ==
    [][StopSent <=> (socket = "open" /\ pressedKeys # {}
                     /\ pressedKeys' = {})
      ]_vars

(* C18.  Prediction is independent of the network: for the same held keys, *)
(* elapsed time, world size and starting position, a tick moves the local  *)
(* entity as it does in a session that never had a socket, whether the     *)
(* socket is open or closed and whether the join was accepted or refused;  *)
(* with no direction held, or opposite directions held on each axis, the   *)
(* position stays.                                                         *)
\* a session of the same world and position whose socket was never created
NeverConnected(s) ==
    [State0 EXCEPT !.world = s.world, !.selfPlayer.x = s.selfPlayer.x,
                   !.selfPlayer.y = s.selfPlayer.y, !.initpc = "loop",
                   !.joined = "false", !.settled = TRUE]

Position(s) == <<s.selfPlayer.x, s.selfPlayer.y>>

Cancelling ==
    {{}, {"ArrowLeft", "ArrowRight"}, {"ArrowUp", "ArrowDown"}, ArrowKeys}

TickStep ==
    /\ initpc = "loop"
    /\ elapsed' = 0
    /\ UNCHANGED <<delivered, tasks, keyEvents, socket, pressedKeys>>

C18_PredictionIndependent ==
    [][TickStep
       => /\ <<selfPlayer'.x, selfPlayer'.y>>
                 = Position(integrateMovement(NeverConnected(Cur),
                                              pressedKeys, elapsed))
          /\ pressedKeys \in Cancelling
                 => <<selfPlayer'.x, selfPlayer'.y>> = Position(Cur)
      ]_vars

\* A tick has moved the local entity of a session whose socket has closed,
\* with ArrowRight held: the camera is still the one of the position the
\* tick found.
C18_Witness ==
    /\ socket = "closed"
    /\ pressedKeys = {"ArrowRight"}
    /\ elapsed = 0
    /\ camera # updateCamera(selfPlayer, world, view)

(* C19.  Single writer: only the handling of inbound messages changes    *)
(* the roster; a tick changes nothing but the position of the local        *)
(* entity; and once the session is joined, the handling of an inbound      *)
(* message changes the local entity's position only when the message       *)
(* lists the local player's identifier (the spawn of a join ack, the       *)
(* correction of a players_moved).                                         *)
HandlerStep == delivered' # delivered \/ tasks' # tasks

Moved == selfPlayer'.x # selfPlayer.x \/ selfPlayer'.y # selfPlayer.y

AtlasBacked(p) == p.avatarName # "null" /\ p.avatarName \in avatarAtlas

ResolvedFacing(p) ==
    IF p.facing = "" THEN "south"
    ELSE IF p.facing = "west" THEN "east" ELSE p.facing

SequenceLen(p) ==
    IF ResolvedFacing(p) \in DOMAIN frames THEN frames[ResolvedFacing(p)]
    ELSE 0

C20_FrameClamped ==
    [][(TickStep /\ AtlasBacked(selfPlayer'))
       => IF SequenceLen(selfPlayer') >= 1
          THEN /\ drawn'.what = "frame"
               /\ drawn'.dir = ResolvedFacing(selfPlayer')
               /\ drawn'.index = Min(Max(selfPlayer'.animationFrame, 0),
                                     SequenceLen(selfPlayer') - 1)
          ELSE drawn'.what = "nothing"
      ]_vars
(* C21.  The size of an atlas-backed entity is the intrinsic size of the  *)
(* first frame of the first non-empty sequence in the order south, east,   *)
(* north; it is the 64x64 default only when all three are empty.           *)
NonEmptySequences ==
    SelectSeq(<< "south", "east", "north" >>,
              LAMBDA d : d \in DOMAIN frames /\ frames[d] > 0)

C21_SizeOfFirstFrame ==
    [][(TickStep /\ AtlasBacked(selfPlayer'))
       => [w |-> drawn'.w, h |-> drawn'.h]
              = IF NonEmptySequences = << >> THEN DefaultDims
                ELSE FrameDims[Head(NonEmptySequences)]
      ]_vars
(* C22.  Label regeneration on rename: a step that changes a remote       *)
(* entity's display name (for a new entity, away from the name "Player"    *)
(* it is created with) leaves it with the label of its new name, and a     *)
(* step that does not change the name leaves the label as it was, absent   *)
(* if it was absent.                                                       *)
Before(id) ==
    IF id \in DOMAIN players THEN players[id]
    ELSE ensureOtherPlayer(NoPlayers, id)[id]

C22_LabelOnRename ==
    [][\A id \in DOMAIN players' :
          IF players'[id].name # Before(id).name
          THEN players'[id].labelCanvas = LabelText(players'[id].name)
          ELSE players'[id].labelCanvas = Before(id).labelCanvas
      ]_vars

\* One players_moved has named one remote entity Ann, with its label, and
\* created another without a name, which has no label.
C22_Witness ==
    /\ IsAction(lastDone.msg, "players_moved")
    /\ \E a, b \in DOMAIN players :
          /\ players[a].name = "Ann"
          /\ players[a].labelCanvas = "Ann"
          /\ players[b].name = "Player"
          /\ players[b].labelCanvas = "null"
(* C23.  Label cache coherence: in every state a render tick can          *)
(* observe, every remote entity of the roster has a label image made       *)
(* from its current display name.                                          *)
C23_LabelCoherent ==
    initpc = "loop"
        => \A id \in DOMAIN players :
              players[id].labelCanvas = LabelText(players[id].name)
(* C24.  Join outcome consistent with the local state: the outcome of    *)
(* connectAndJoin is decided once, and in every state where it is "not     *)
(* joined" the local entity has no identifier from the server and, once    *)
(* the loop runs, stands at the offline spawn (the centre of a loaded      *)
(* map, the origin otherwise).                                             *)
OfflineSpawn ==
    IF world.width > 0 /\ world.height > 0
    THEN <<world.width \div 2, world.height \div 2>>
    ELSE <<0, 0>>

C24_OutcomeConsistent ==
    /\ [](joined = "false"
            => /\ selfPlayer.id \notin Ids
               /\ initpc = "loop"
                     => <<selfPlayer.x, selfPlayer.y>> = OfflineSpawn)
    /\ [][joined # "pending" => joined' = joined]_vars
(* C25.  Outbound intents only on an open channel: a move or a stop is   *)
(* sent only while the socket is open; a keyboard event while the socket   *)
(* is null, connecting or closed sends nothing, and still adds the arrow   *)
(* key that went down to the held set, or removes the one that went up.    *)
IntentSent ==
    /\ Len(sent') > Len(sent)
    /\ sent'[Len(sent')].action \in {"move", "stop"}

KeyStep == keyEvents' = keyEvents + 1

C25_IntentsOnlyWhenOpen ==
    [][/\ IntentSent => socket = "open" /\ socket' = "open"
       /\ (KeyStep /\ socket # "open")
              => /\ sent' = sent
                 /\ \/ \E k \in ArrowKeys : pressedKeys' = pressedKeys \cup {k}
                    \/ \E k \in ArrowKeys : pressedKeys' = pressedKeys \ {k}
                    \/ pressedKeys' = {}
      ]_vars

\* The socket has closed, ArrowDown went down after that and is held, and
\* nothing but the join request was ever sent.
C25_Witness ==
    /\ socket = "closed"
    /\ pressedKeys = {"ArrowDown"}
    /\ keyEvents = 1
    /\ sent = << JoinRequest >>
====
